---- MODULE Spec2Model ----
(***************************************************************************)
(* Resource-map composition, clock setup and device programming of the     *)
(* Arty A7-35 target (litex/boards/targets/arty_a7_35.py) and the          *)
(* USB-Blaster programmer (litex/build/altera/programmer.py).              *)
(*                                                                         *)
(* Addresses are counted in units of 0x1000 bytes: every address and size  *)
(* of the sources is a multiple of 0x1000, and 0xb0000000 does not fit     *)
(* the model checker's integers.                                           *)
(*                                                                         *)
(* A Python dict is a function from its keys to its values; a Python str   *)
(* is a sequence of one-character strings.                                 *)
(***************************************************************************)
EXTENDS Integers, Sequences, FiniteSets, TLC

VARIABLES
    pc,             \* position of the running script, or "harness" for direct API calls
    calls,          \* number of direct API calls made so far
    call,           \* the operation executed last, with its arguments
    raised,         \* the exception the last operation raised, "none" if it returned
    csr_map,        \* class name -> the class attribute csr_map
    interrupt_map,  \* class name -> the class attribute interrupt_map
    mem_map,        \* class name -> the class attribute mem_map
    base_layer,     \* a dict under construction (the layer that is merged in)
    derived_layer,  \* a dict under construction (the layer that update() is called on)
    effective,      \* derived_layer after derived_layer.update(base_layer)
    cls,            \* the class main() instantiates
    builds,         \* number of SoC objects constructed in this process
    crg_pc,         \* index of the next statement of _CRG.__init__
    soc_pc,         \* index of the next statement of the SoC's __init__
    domains,        \* clock domains created so far
    pll,            \* the PLL: created, its reference input, its outputs
    submodules,     \* names assigned to self.submodules, in order
    regions,        \* memory regions registered, in order
    maps,           \* the composer's effective maps, by namespace
    finalized,      \* whether the composer has been finalized
    prog,           \* the programmer backend descriptor
    invocations,    \* argument vectors handed to subprocess.call, in order
    exit_code,      \* exit code of the last external process, -1 if none ran
    result          \* what the last load_bitstream call returned or raised

vars == <<pc, calls, call, raised, csr_map, interrupt_map, mem_map, base_layer,
          derived_layer, effective, cls, builds, crg_pc, soc_pc, domains, pll,
          submodules, regions, maps, finalized, prog, invocations, exit_code, result>>

mapVars   == <<csr_map, interrupt_map, mem_map>>
layerVars == <<base_layer, derived_layer, effective>>
clockVars == <<crg_pc, domains, pll>>
socVars   == <<cls, builds, soc_pc, submodules, regions, maps, finalized>>
progVars  == <<prog, invocations, exit_code, result>>

(***************************************************************************)
(* Bounds of the model.                                                    *)
(***************************************************************************)
MaxSlot == 2
MaxCalls == 3
MaxClockCalls == 4
MaxBuilds == 2
MaxLoads == 2
MaxDeviceId == 10
MaxExitCode == 2

(***************************************************************************)
(* Dictionaries.                                                           *)
(***************************************************************************)
EmptyDict == [n \in {} |-> 0]

\* d[name] = slot
dict_setitem(d, name, slot) ==
    [n \in DOMAIN d \cup {name} |-> IF n = name THEN slot ELSE d[n]]

\* a mutation of dict_update that forgets the receiver's own entries
dict_update_rebind(d, other) == other

\* d.update(other): every entry of other is written into d, replacing d's
\* entry for a key both have
dict_update(d, other) ==
    [n \in DOMAIN d \cup DOMAIN other |-> IF n \in DOMAIN other THEN other[n] ELSE d[n]]

Slots == 0..MaxSlot
LayerNames == {"uart0", "ethmac", "leds"}
Layers(names) == UNION {[S -> Slots] : S \in SUBSET names}

(***************************************************************************)
(* Class attributes.  The classes above BaseSoC (SoCSDRAM and its bases)   *)
(* are not part of these sources: their maps are inputs, drawn from the    *)
(* layers over the names those classes own.                                *)
(***************************************************************************)
FrameworkCsrLayers == Layers({"leds", "buttons"})
FrameworkIrqLayers == Layers({"timer0"})
FrameworkMemLayers == {EmptyDict, ("rom" :> 0) @@ ("main_ram" :> 262144)}

Parent == ("BaseSoC" :> "SoCSDRAM") @@ ("EthernetSoC" :> "BaseSoC")

\* C.attr: the attribute of the nearest class of the inheritance chain that
\* defines it
RECURSIVE getattr_map(_, _)
getattr_map(m, c) ==
    IF c \in DOMAIN m THEN m[c]
    ELSE IF c \in DOMAIN Parent THEN getattr_map(m, Parent[c])
    ELSE EmptyDict

BaseSoC_csr_map ==
    ("ddrphy" :> 16) @@ ("uart_phy0" :> 17) @@ ("uart0" :> 18) @@
    ("uart_phy1" :> 19) @@ ("uart1" :> 20) @@ ("switches" :> 21)

BaseSoC_interrupt_map == ("uart0" :> 3) @@ ("uart1" :> 4)

EthernetSoC_csr_map == ("ethphy" :> 22) @@ ("ethmac" :> 23)

EthernetSoC_interrupt_map == ("ethmac" :> 5)

\* 0x30000000
EthernetSoC_mem_map == ("ethmac" :> 196608)

\* the class body of BaseSoC, executed when the module is imported
ImportBaseSoC ==
    /\ pc = "import_BaseSoC"
    /\ csr_map' = dict_setitem(csr_map, "BaseSoC",
           dict_update(BaseSoC_csr_map, getattr_map(csr_map, "SoCSDRAM")))
    /\ interrupt_map' = dict_setitem(interrupt_map, "BaseSoC",
           dict_update(BaseSoC_interrupt_map, getattr_map(interrupt_map, "SoCSDRAM")))
    /\ pc' = "import_EthernetSoC"
    /\ UNCHANGED <<calls, call, raised, mem_map, layerVars, clockVars, socVars, progVars>>

\* a mutation of the class body of EthernetSoC: the maps are bound to the
\* base class's dict objects and the new entries are written into them
ImportEthernetSoC_aliased ==
    /\ pc = "import_EthernetSoC"
    /\ LET c == dict_update(getattr_map(csr_map, "BaseSoC"), EthernetSoC_csr_map)
           i == dict_update(getattr_map(interrupt_map, "BaseSoC"), EthernetSoC_interrupt_map)
           m == dict_update(getattr_map(mem_map, "BaseSoC"), EthernetSoC_mem_map)
       IN /\ csr_map' = dict_setitem(dict_setitem(csr_map, "BaseSoC", c), "EthernetSoC", c)
          /\ interrupt_map' =
                 dict_setitem(dict_setitem(interrupt_map, "BaseSoC", i), "EthernetSoC", i)
          /\ mem_map' = dict_setitem(dict_setitem(mem_map, "SoCSDRAM", m), "EthernetSoC", m)
    /\ pc' = "imported"
    /\ UNCHANGED <<calls, call, raised, layerVars, clockVars, socVars, progVars>>

\* the class body of EthernetSoC, executed when the module is imported
ImportEthernetSoC ==
    /\ pc = "import_EthernetSoC"
    /\ csr_map' = dict_setitem(csr_map, "EthernetSoC",
           dict_update(EthernetSoC_csr_map, getattr_map(csr_map, "BaseSoC")))
    /\ interrupt_map' = dict_setitem(interrupt_map, "EthernetSoC",
           dict_update(EthernetSoC_interrupt_map, getattr_map(interrupt_map, "BaseSoC")))
    /\ mem_map' = dict_setitem(mem_map, "EthernetSoC",
           dict_update(EthernetSoC_mem_map, getattr_map(mem_map, "BaseSoC")))
    /\ pc' = "imported"
    /\ UNCHANGED <<calls, call, raised, layerVars, clockVars, socVars, progVars>>

(***************************************************************************)
(* Layers built entry by entry and merged, for arbitrary layers.           *)
(***************************************************************************)
NoCall == [op |-> "none", ns |-> "", name |-> "", slot |-> 0, base |-> 0, size |-> 0, alias |-> 0]

\* one entry of the dict display of the merged-in layer
DeclareBase ==
    /\ pc = "harness"
    /\ \E n \in LayerNames, s \in Slots : base_layer' = dict_setitem(base_layer, n, s)
    /\ UNCHANGED <<pc, calls, call, raised, mapVars, derived_layer, effective,
                   clockVars, socVars, progVars>>

\* one entry of the dict display of the layer update() is called on
DeclareDerived ==
    /\ pc = "harness"
    /\ \E n \in LayerNames, s \in Slots : derived_layer' = dict_setitem(derived_layer, n, s)
    /\ UNCHANGED <<pc, calls, call, raised, mapVars, base_layer, effective,
                   clockVars, socVars, progVars>>

\* derived_layer.update(base_layer)
MergeLayer ==
    /\ pc = "harness"
    /\ effective' = dict_update(derived_layer, base_layer)
    /\ pc' = "merged"
    /\ UNCHANGED <<calls, call, raised, mapVars, base_layer, derived_layer,
                   clockVars, socVars, progVars>>

(***************************************************************************)
(* Initial values of the parts a specification does not exercise.          *)
(***************************************************************************)
NoPll == [created |-> FALSE, clkin |-> "none", clkouts |-> <<>>]
NoMaps == [ns \in {"csr", "interrupt", "mem"} |-> EmptyDict]
NoProg == [cable_name |-> <<>>, device_id |-> 0]

InitCalls == calls = 0 /\ call = NoCall /\ raised = "none"
InitNoClasses == csr_map = EmptyDict /\ interrupt_map = EmptyDict /\ mem_map = EmptyDict
InitClasses ==
    /\ csr_map \in [{"SoCSDRAM"} -> FrameworkCsrLayers]
    /\ interrupt_map \in [{"SoCSDRAM"} -> FrameworkIrqLayers]
    /\ mem_map \in [{"SoCSDRAM"} -> FrameworkMemLayers]
InitLayers == base_layer = EmptyDict /\ derived_layer = EmptyDict /\ effective = EmptyDict
InitClock == crg_pc = 1 /\ domains = {} /\ pll = NoPll
InitSoc ==
    /\ cls = "none" /\ builds = 0 /\ soc_pc = 1 /\ submodules = <<>>
    /\ regions = <<>> /\ maps = NoMaps /\ finalized = FALSE
InitProg == prog = NoProg /\ invocations = <<>> /\ exit_code = -1 /\ result = "none"

(***************************************************************************)
(* SpecMaps: the class bodies run at import, or two arbitrary layers are   *)
(* built and merged.                                                       *)
(***************************************************************************)
InitMaps ==
    /\ pc \in {"harness", "import_BaseSoC"}
    /\ IF pc = "harness" THEN InitNoClasses ELSE InitClasses
    /\ InitCalls /\ InitLayers /\ InitClock /\ InitSoc /\ InitProg

NextMaps ==
    \/ ImportBaseSoC
    \/ ImportEthernetSoC
    \/ DeclareBase
    \/ DeclareDerived
    \/ MergeLayer

SpecMaps == InitMaps /\ [][NextMaps]_vars

(***************************************************************************)
(* Clock domains and the PLL.                                              *)
(***************************************************************************)
ClockNames == {"sys", "sys4x", "sys4x_dqs", "clk200"}

\* ClockDomain(): the domain exists from here on
create_domain(d, p, cd) == [domains |-> d \cup {cd}, pll |-> p, raised |-> "none"]

\* S7PLL(): a PLL with no reference and no outputs
create_pll(d, p) ==
    [domains |-> d, pll |-> [created |-> TRUE, clkin |-> "none", clkouts |-> <<>>],
     raised |-> "none"]

\* pll.register_clkin(external source, frequency): the reference comes from
\* outside and needs no upstream domain
register_reference(d, p, src) ==
    IF ~p.created
    THEN [domains |-> d, pll |-> p, raised |-> "ClockConfigError"]
    ELSE [domains |-> d, pll |-> [p EXCEPT !.clkin = src], raised |-> "none"]

\* a mutation of derive that does not look at what the output derives from
derive_unchecked(d, p, cd, freq, phase) ==
    [domains |-> d,
     pll |-> [p EXCEPT !.clkouts = Append(@, [cd |-> cd, freq |-> freq, phase |-> phase])],
     raised |-> "none"]

\* pll.create_clkout(domain, frequency, phase): refused when the domain or the
\* PLL's reference does not exist yet
derive(d, p, cd, freq, phase) ==
    IF ~p.created \/ p.clkin = "none" \/ cd \notin d
    THEN [domains |-> d, pll |-> p, raised |-> "ClockConfigError"]
    ELSE [domains |-> d,
          pll |-> [p EXCEPT !.clkouts = Append(@, [cd |-> cd, freq |-> freq, phase |-> phase])],
          raised |-> "none"]

clock_apply(d, p, o) ==
    CASE o.op = "ClockDomain"    -> create_domain(d, p, o.cd)
      [] o.op = "S7PLL"          -> create_pll(d, p)
      [] o.op = "register_clkin" -> register_reference(d, p, o.cd)
      [] o.op = "create_clkout"  -> derive(d, p, o.cd, o.freq, o.phase)

ClockOp(op, cd, freq, phase) == [op |-> op, cd |-> cd, freq |-> freq, phase |-> phase]

\* a mutation of _CRG.__init__: cd_clk200 is created after the PLL outputs
CRG_program_late_domain ==
    << ClockOp("ClockDomain", "sys", 0, 0),
       ClockOp("ClockDomain", "sys4x", 0, 0),
       ClockOp("ClockDomain", "sys4x_dqs", 0, 0),
       ClockOp("S7PLL", "pll", 0, 0),
       ClockOp("register_clkin", "clk100", 100, 0),
       ClockOp("create_clkout", "sys", 100, 0),
       ClockOp("create_clkout", "sys4x", 400, 0),
       ClockOp("create_clkout", "sys4x_dqs", 400, 90),
       ClockOp("create_clkout", "clk200", 200, 0),
       ClockOp("ClockDomain", "clk200", 0, 0) >>

\* the statements of _CRG.__init__ that act on clock domains and the PLL, in
\* order (frequencies in MHz, sys_clk_freq = 100e6)
CRG_program ==
    << ClockOp("ClockDomain", "sys", 0, 0),
       ClockOp("ClockDomain", "sys4x", 0, 0),
       ClockOp("ClockDomain", "sys4x_dqs", 0, 0),
       ClockOp("ClockDomain", "clk200", 0, 0),
       ClockOp("S7PLL", "pll", 0, 0),
       ClockOp("register_clkin", "clk100", 100, 0),
       ClockOp("create_clkout", "sys", 100, 0),
       ClockOp("create_clkout", "sys4x", 400, 0),
       ClockOp("create_clkout", "sys4x_dqs", 400, 90),
       ClockOp("create_clkout", "clk200", 200, 0) >>

ClockCallOf(o) == [NoCall EXCEPT !.op = o.op, !.name = o.cd]

\* the next statement of _CRG.__init__; an exception ends the construction
CRGStep ==
    /\ pc = "crg"
    /\ crg_pc <= Len(CRG_program)
    /\ LET o == CRG_program[crg_pc]
           r == clock_apply(domains, pll, o)
       IN /\ domains' = r.domains
          /\ pll' = r.pll
          /\ raised' = r.raised
          /\ call' = ClockCallOf(o)
          /\ crg_pc' = crg_pc + 1
          /\ pc' = IF r.raised # "none" THEN "aborted"
                   ELSE IF crg_pc = Len(CRG_program) THEN "crg_done" ELSE "crg"
    /\ UNCHANGED <<calls, mapVars, layerVars, socVars, progVars>>

HarnessClockOps ==
    {ClockOp("ClockDomain", cd, 0, 0) : cd \in ClockNames}
    \cup {ClockOp("S7PLL", "pll", 0, 0), ClockOp("register_clkin", "clk100", 100, 0)}
    \cup {ClockOp("create_clkout", cd, 100, 0) : cd \in ClockNames}

\* one direct call of the clock API, in any order
ClockCall ==
    /\ pc = "harness"
    /\ calls < MaxClockCalls
    /\ \E o \in HarnessClockOps :
         /\ o.op \in {"register_clkin", "create_clkout"} => pll.created
         /\ LET r == clock_apply(domains, pll, o)
            IN /\ domains' = r.domains
               /\ pll' = r.pll
               /\ raised' = r.raised
               /\ call' = ClockCallOf(o)
    /\ calls' = calls + 1
    /\ UNCHANGED <<pc, crg_pc, mapVars, layerVars, socVars, progVars>>

(***************************************************************************)
(* SpecClock: _CRG.__init__ runs, or the clock API is called directly.     *)
(***************************************************************************)
InitClockSpec ==
    /\ pc \in {"harness", "crg"}
    /\ InitCalls /\ InitNoClasses /\ InitLayers /\ InitClock /\ InitSoc /\ InitProg

NextClock ==
    \/ CRGStep
    \/ ClockCall

SpecClock == InitClockSpec /\ [][NextClock]_vars

(***************************************************************************)
(* The composer: registration of peripherals, resources and memory         *)
(* regions, and finalization.                                              *)
(***************************************************************************)
\* 0x80000000: the shadow of 0x30000000 is 0xb0000000
shadow_base == 524288

\* a | b on non-negative integers
RECURSIVE BitOr(_, _)
BitOr(a, b) ==
    IF a = 0 THEN b
    ELSE IF b = 0 THEN a
    ELSE (IF a % 2 = 1 \/ b % 2 = 1 THEN 1 ELSE 0) + 2 * BitOr(a \div 2, b \div 2)

Composer(m, subs, regs, fin, err) ==
    [maps |-> m, submodules |-> subs, regions |-> regs, finalized |-> fin, raised |-> err]

\* declare(namespace, name, slot) on the composer's effective maps
composer_declare(m, subs, regs, fin, ns, name, slot) ==
    IF fin THEN Composer(m, subs, regs, fin, "AlreadyFinalizedError")
    ELSE IF \E n \in DOMAIN m[ns] : n # name /\ m[ns][n] = slot
    THEN Composer(m, subs, regs, fin, "SlotCollisionError")
    ELSE Composer([m EXCEPT ![ns] = dict_setitem(@, name, slot)], subs, regs, fin, "none")

\* a mutation of composer_register that does not look at the finalized flag
composer_register_unguarded(m, subs, regs, fin, name) ==
    Composer(m, Append(subs, name), regs, fin, "none")

\* self.submodules.<name> = ...: the peripheral is registered behind the
\* ones registered before it
composer_register(m, subs, regs, fin, name) ==
    IF fin THEN Composer(m, subs, regs, fin, "AlreadyFinalizedError")
    ELSE Composer(m, Append(subs, name), regs, fin, "none")

\* a mutation of regions_overlap that compares the base addresses only
regions_overlap_same_base(b1, s1, b2, s2) == b1 = b2

\* whether [b1, b1+s1) and [b2, b2+s2) intersect
regions_overlap(b1, s1, b2, s2) == b1 < b2 + s2 /\ b2 < b1 + s1

\* add_memory_region: the region's primary range is checked against every
\* region registered before; alias is the shadow address, 0 for none
add_memory_region(m, subs, regs, fin, name, base, size, alias) ==
    IF fin THEN Composer(m, subs, regs, fin, "AlreadyFinalizedError")
    ELSE IF \E i \in 1..Len(regs) : regions_overlap(base, size, regs[i].base, regs[i].size)
    THEN Composer(m, subs, regs, fin, "AddressOverlapError")
    ELSE Composer(m, subs,
                  Append(regs, [name |-> name, base |-> base, size |-> size, alias |-> alias]),
                  fin, "none")

\* finalization: maps and regions are frozen from here on
composer_finalize(m, subs, regs, fin) == Composer(m, subs, regs, TRUE, "none")

HarnessNamespaces == {"csr", "interrupt", "mem"}
HarnessNames == {"ethmac", "uart0"}
HarnessSlots == {22, 23}
HarnessBases == {196608, 196609, 196610}
HarnessSizes == {1, 2}

HarnessComposerCalls ==
    {[NoCall EXCEPT !.op = "declare", !.ns = ns, !.name = n, !.slot = sl] :
        ns \in HarnessNamespaces, n \in HarnessNames, sl \in HarnessSlots}
    \cup {[NoCall EXCEPT !.op = "register", !.name = n] : n \in HarnessNames}
    \cup {[NoCall EXCEPT !.op = "add_memory_region", !.name = n, !.base = b, !.size = sz,
                         !.alias = IF sh THEN BitOr(b, shadow_base) ELSE 0] :
            n \in HarnessNames, b \in HarnessBases, sz \in HarnessSizes, sh \in BOOLEAN}
    \cup {[NoCall EXCEPT !.op = "finalize"]}

composer_apply(m, subs, regs, fin, c) ==
    CASE c.op = "declare"  -> composer_declare(m, subs, regs, fin, c.ns, c.name, c.slot)
      [] c.op = "register" -> composer_register(m, subs, regs, fin, c.name)
      [] c.op = "add_memory_region" ->
             add_memory_region(m, subs, regs, fin, c.name, c.base, c.size, c.alias)
      [] c.op = "finalize" -> composer_finalize(m, subs, regs, fin)

\* one direct call on the composer, in any order
ComposerCall ==
    /\ pc = "harness"
    /\ calls < MaxCalls
    /\ \E c \in HarnessComposerCalls :
         LET r == composer_apply(maps, submodules, regions, finalized, c)
         IN /\ maps' = r.maps
            /\ submodules' = r.submodules
            /\ regions' = r.regions
            /\ finalized' = r.finalized
            /\ raised' = r.raised
            /\ call' = c
    /\ calls' = calls + 1
    /\ UNCHANGED <<pc, mapVars, layerVars, clockVars, cls, builds, soc_pc, progVars>>

(***************************************************************************)
(* SpecComposer: the composer is called directly.                          *)
(***************************************************************************)
InitComposer ==
    /\ pc = "harness"
    /\ InitCalls /\ InitNoClasses /\ InitLayers /\ InitClock /\ InitSoc /\ InitProg

NextComposer == ComposerCall

SpecComposer == InitComposer /\ [][NextComposer]_vars

(***************************************************************************)
(* Construction of a SoC by main(): the statements of BaseSoC.__init__     *)
(* and EthernetSoC.__init__, in order.                                     *)
(***************************************************************************)
SocOp(op, name) == [op |-> op, name |-> name]

\* a mutation of BaseSoC.__init__: the GPIO blocks are created before the UARTs
BaseSoC_program_gpio_first ==
    << SocOp("submodule", "crg"),
       SocOp("submodule", "ddrphy"),
       SocOp("register_sdram", "ddrphy"),
       SocOp("submodule", "leds"),
       SocOp("submodule", "switches"),
       SocOp("submodule", "buttons"),
       SocOp("submodule", "uart_phy0"),
       SocOp("submodule", "uart0"),
       SocOp("submodule", "uart_phy1"),
       SocOp("submodule", "uart1") >>

\* the statements of BaseSoC.__init__ after the construction of _CRG
BaseSoC_program ==
    << SocOp("submodule", "crg"),
       SocOp("submodule", "ddrphy"),
       SocOp("register_sdram", "ddrphy"),
       SocOp("submodule", "uart_phy0"),
       SocOp("submodule", "uart0"),
       SocOp("submodule", "uart_phy1"),
       SocOp("submodule", "uart1"),
       SocOp("submodule", "leds"),
       SocOp("submodule", "switches"),
       SocOp("submodule", "buttons") >>

\* the statements of EthernetSoC.__init__ after BaseSoC.__init__
EthernetSoC_program ==
    << SocOp("submodule", "ethphy"),
       SocOp("submodule", "ethmac"),
       SocOp("add_wb_slave", "ethmac"),
       SocOp("add_memory_region", "ethmac"),
       SocOp("constraints", "crg") >>

SoC_program(c) ==
    IF c = "EthernetSoC" THEN BaseSoC_program \o EthernetSoC_program ELSE BaseSoC_program

\* cls = EthernetSoC if args.with_ethernet else BaseSoC; soc = cls(...)
Main ==
    /\ pc \in {"imported", "built"}
    /\ builds < MaxBuilds
    /\ \E with_ethernet \in BOOLEAN :
         cls' = IF with_ethernet THEN "EthernetSoC" ELSE "BaseSoC"
    /\ pc' = "soc_init"
    /\ UNCHANGED <<calls, call, raised, mapVars, layerVars, clockVars, builds, soc_pc,
                   submodules, regions, maps, finalized, progVars>>

\* SoCSDRAM.__init__: a fresh object whose maps are the class attributes
SoCSDRAM_init ==
    /\ pc = "soc_init"
    /\ maps' = [ns \in {"csr", "interrupt", "mem"} |->
                  CASE ns = "csr"       -> getattr_map(csr_map, cls)
                    [] ns = "interrupt" -> getattr_map(interrupt_map, cls)
                    [] ns = "mem"       -> getattr_map(mem_map, cls)]
    /\ submodules' = <<>>
    /\ regions' = <<>>
    /\ finalized' = FALSE
    /\ domains' = {}
    /\ pll' = NoPll
    /\ crg_pc' = 1
    /\ soc_pc' = 1
    /\ call' = NoCall
    /\ raised' = "none"
    /\ pc' = "crg"
    /\ UNCHANGED <<calls, mapVars, layerVars, cls, builds, progVars>>

soc_apply(m, subs, regs, fin, o) ==
    CASE o.op = "submodule" -> composer_register(m, subs, regs, fin, o.name)
      [] o.op = "add_memory_region" ->
             add_memory_region(m, subs, regs, fin, o.name, m["mem"][o.name], 2,
                               BitOr(m["mem"][o.name], shadow_base))
      [] OTHER -> Composer(m, subs, regs, fin, "none")

\* the next statement of the SoC's __init__; an exception ends the construction
SoCStep ==
    /\ pc \in {"crg_done", "soc"}
    /\ soc_pc <= Len(SoC_program(cls))
    /\ LET o == SoC_program(cls)[soc_pc]
           r == soc_apply(maps, submodules, regions, finalized, o)
       IN /\ maps' = r.maps
          /\ submodules' = r.submodules
          /\ regions' = r.regions
          /\ finalized' = r.finalized
          /\ raised' = r.raised
          /\ call' = [NoCall EXCEPT !.op = o.op, !.name = o.name]
          /\ soc_pc' = soc_pc + 1
          /\ pc' = IF r.raised # "none" THEN "aborted"
                   ELSE IF soc_pc = Len(SoC_program(cls)) THEN "constructed" ELSE "soc"
    /\ UNCHANGED <<calls, mapVars, layerVars, clockVars, cls, builds, progVars>>

\* Builder(soc, ...).build(): the SoC is finalized
Build ==
    /\ pc = "constructed"
    /\ LET r == composer_finalize(maps, submodules, regions, finalized)
       IN /\ finalized' = r.finalized
          /\ raised' = r.raised
    /\ call' = [NoCall EXCEPT !.op = "finalize"]
    /\ builds' = builds + 1
    /\ pc' = "built"
    /\ UNCHANGED <<calls, mapVars, layerVars, clockVars, cls, soc_pc, submodules,
                   regions, maps, progVars>>

(***************************************************************************)
(* Spec: the module is imported and main() builds SoCs.                    *)
(***************************************************************************)
Init ==
    /\ pc = "import_BaseSoC"
    /\ InitClasses
    /\ InitCalls /\ InitLayers /\ InitClock /\ InitSoc /\ InitProg

Next ==
    \/ ImportBaseSoC
    \/ ImportEthernetSoC
    \/ Main
    \/ SoCSDRAM_init
    \/ CRGStep
    \/ SoCStep
    \/ Build

Spec == Init /\ [][Next]_vars

(***************************************************************************)
(* The USB-Blaster programmer.                                             *)
(***************************************************************************)
Digits == <<"0", "1", "2", "3", "4", "5", "6", "7", "8", "9">>

\* str(n) for n >= 0: the decimal digits, most significant first
RECURSIVE str_int(_)
str_int(n) ==
    IF n < 10 THEN <<Digits[n + 1]>> ELSE str_int(n \div 10) \o <<Digits[(n % 10) + 1]>>

\* the argument vector: "{}{}".format(cable_name, cable_suffix) and
\* "p;{}@{}".format(bitstream_file, device_id)
quartus_pgm_argv(cable_name, device_id, bitstream_file, cable_suffix) ==
    << <<"q", "u", "a", "r", "t", "u", "s", "_", "p", "g", "m">>,
       <<"-", "m">>, <<"j", "t", "a", "g">>, <<"-", "c">>,
       cable_name \o cable_suffix,
       <<"-", "o">>,
       <<"p", ";">> \o bitstream_file \o <<"@">> \o str_int(device_id) >>

CableNames == {<<"U", "S", "B", "-", "B", "l", "a", "s", "t", "e", "r">>,
               <<"A", "r", "r", "o", "w">>}
DeviceIds == {1, 7, MaxDeviceId}
BitstreamFiles == {<<"t", "o", "p", ".", "s", "o", "f">>, <<"a", "@", "1">>}
CableSuffixes == {<<>>, <<" ", "[", "1", "-", "2", "]">>}
\* how the external process ends: it cannot be started, or it exits with a code
Outcomes == {-1} \cup (0..MaxExitCode)

\* USBBlaster(cable_name, device_id)
USBBlaster_init ==
    /\ pc = "prog_new"
    /\ \E c \in CableNames, d \in DeviceIds : prog' = [cable_name |-> c, device_id |-> d]
    /\ pc' = "prog_ready"
    /\ UNCHANGED <<calls, call, raised, mapVars, layerVars, clockVars, socVars,
                   invocations, exit_code, result>>

\* a mutation of load_bitstream: the programmer is started again after a
\* non-zero exit
load_bitstream_retry ==
    /\ pc = "prog_ready"
    /\ calls < MaxLoads
    /\ \E f \in BitstreamFiles, sfx \in CableSuffixes, out \in Outcomes :
         LET argv == quartus_pgm_argv(prog.cable_name, prog.device_id, f, sfx)
         IN /\ invocations' = IF out > 0 THEN invocations \o <<argv, argv>>
                              ELSE Append(invocations, argv)
            /\ call' = [op |-> "load_bitstream", bitstream_file |-> f, cable_suffix |-> sfx]
            /\ exit_code' = out
            /\ raised' = IF out = -1 THEN "OSError" ELSE "none"
            /\ result' = IF out = -1 THEN "raised" ELSE "None"
    /\ calls' = calls + 1
    /\ UNCHANGED <<pc, mapVars, layerVars, clockVars, socVars, prog>>

\* load_bitstream(bitstream_file, cable_suffix): one subprocess.call, whose
\* return value is dropped; an OSError of the start propagates
load_bitstream ==
    /\ pc = "prog_ready"
    /\ calls < MaxLoads
    /\ \E f \in BitstreamFiles, sfx \in CableSuffixes, out \in Outcomes :
         /\ invocations' =
                Append(invocations, quartus_pgm_argv(prog.cable_name, prog.device_id, f, sfx))
         /\ call' = [op |-> "load_bitstream", bitstream_file |-> f, cable_suffix |-> sfx]
         /\ exit_code' = out
         /\ raised' = IF out = -1 THEN "OSError" ELSE "none"
         /\ result' = IF out = -1 THEN "raised" ELSE "None"
    /\ calls' = calls + 1
    /\ UNCHANGED <<pc, mapVars, layerVars, clockVars, socVars, prog>>

(***************************************************************************)
(* SpecProg: a programmer is constructed and bitstreams are loaded.        *)
(***************************************************************************)
InitProgSpec ==
    /\ pc = "prog_new"
    /\ InitCalls /\ InitNoClasses /\ InitLayers /\ InitClock /\ InitSoc /\ InitProg

NextProg ==
    \/ USBBlaster_init
    \/ load_bitstream

SpecProg == InitProgSpec /\ [][NextProg]_vars

(***************************************************************************)
(* Properties.                                                             *)
(***************************************************************************)
BaseCsr == getattr_map(csr_map, "BaseSoC")
BaseIrq == getattr_map(interrupt_map, "BaseSoC")
BaseMem == getattr_map(mem_map, "BaseSoC")
EthCsr == getattr_map(csr_map, "EthernetSoC")

\* C1: after the merge, a name that both layers declare with different slots
\* resolves to the derived layer's slot, and no DuplicateNameError is raised.
C1_OverrideWins ==
    pc = "merged" =>
        /\ raised # "DuplicateNameError"
        /\ \A n \in DOMAIN base_layer \cap DOMAIN derived_layer :
               base_layer[n] # derived_layer[n] => effective[n] = derived_layer[n]

\* C2: the merge of two layers with disjoint names has |base| + |derived|
\* entries and every name resolves to the slot its own layer gave it; the
\* Ethernet-extended CSR map resolves ethmac to 23, uart0 to 18 and every
\* name of the base configuration as the base configuration does.
C2_DisjointMerge ==
    /\ (pc = "merged" /\ DOMAIN base_layer \cap DOMAIN derived_layer = {}) =>
           /\ Cardinality(DOMAIN effective) =
                  Cardinality(DOMAIN base_layer) + Cardinality(DOMAIN derived_layer)
           /\ \A n \in DOMAIN base_layer : effective[n] = base_layer[n]
           /\ \A n \in DOMAIN derived_layer : effective[n] = derived_layer[n]
    /\ pc = "imported" =>
           /\ "ethmac" \in DOMAIN EthCsr /\ EthCsr["ethmac"] = 23
           /\ "uart0" \in DOMAIN EthCsr /\ EthCsr["uart0"] = 18
           /\ BaseCsr["uart0"] = 18
           /\ \A n \in DOMAIN BaseCsr : n \in DOMAIN EthCsr /\ EthCsr[n] = BaseCsr[n]
           /\ Cardinality(DOMAIN EthCsr) = Cardinality(DOMAIN BaseCsr) + 2

C2_Witness ==
    /\ pc = "merged"
    /\ DOMAIN base_layer \cap DOMAIN derived_layer = {}
    /\ Cardinality(DOMAIN base_layer) = 2
    /\ Cardinality(DOMAIN derived_layer) = 1
    /\ Cardinality(DOMAIN effective) = 3

\* C3: after a load whose external process exited with a non-zero code n the
\* call has failed with ProgrammerExitError (it has not returned normally),
\* and a call that returned normally saw exit code 0.
C3_NonZeroExitRaises ==
    call.op = "load_bitstream" =>
        /\ (exit_code > 0 => raised = "ProgrammerExitError" /\ result # "None")
        /\ (result = "None" => exit_code = 0)

DigitValue(c) == CHOOSE v \in 0..9 : Digits[v + 1] = c

RECURSIVE Decimal(_)
Decimal(ds) ==
    IF Len(ds) = 0 THEN 0
    ELSE 10 * Decimal(SubSeq(ds, 1, Len(ds) - 1)) + DigitValue(ds[Len(ds)])

IsDecimal(ds) ==
    /\ Len(ds) > 0
    /\ \A i \in 1..Len(ds) : \E v \in 0..9 : Digits[v + 1] = ds[i]
    /\ Len(ds) > 1 => ds[1] # "0"

\* C4: every load_bitstream call starts the external programmer exactly once,
\* with the arguments -m jtag -c <cable><suffix> -o p;<path>@<device>, whatever
\* the outcome of that start.
C4_OneInvocationPerCall ==
    /\ Len(invocations) = calls
    /\ call.op = "load_bitstream" =>
           LET a == invocations[Len(invocations)]
               o == a[7]
               path == call.bitstream_file
               at == 2 + Len(path) + 1
           IN /\ Len(a) = 7
              /\ a[2] = <<"-", "m">>
              /\ a[3] = <<"j", "t", "a", "g">>
              /\ a[4] = <<"-", "c">>
              /\ a[5] = prog.cable_name \o call.cable_suffix
              /\ a[6] = <<"-", "o">>
              /\ Len(o) > at
              /\ SubSeq(o, 1, 2) = <<"p", ";">>
              /\ SubSeq(o, 3, at - 1) = path
              /\ o[at] = "@"
              /\ IsDecimal(SubSeq(o, at + 1, Len(o)))
              /\ Decimal(SubSeq(o, at + 1, Len(o))) = prog.device_id

C4_Witness ==
    /\ calls = 2
    /\ Len(invocations) = 2
    /\ exit_code > 0
    /\ call.op = "load_bitstream"
    /\ call.cable_suffix # <<>>
    /\ prog.device_id = 10

Addresses(b, sz) == b..(b + sz - 1)

\* C5: a region whose primary range meets the primary range of a region
\* registered before is refused with AddressOverlapError and not registered;
\* a region whose primary range meets none is registered, whether or not it
\* and the others carry an alias formed with the shadow base.
C5_OverlapRefused ==
    [][(calls' = calls + 1 /\ call'.op = "add_memory_region" /\ ~finalized) =>
          LET hit == \E i \in 1..Len(regions) :
                        Addresses(call'.base, call'.size)
                            \cap Addresses(regions[i].base, regions[i].size) # {}
          IN /\ hit => raised' = "AddressOverlapError" /\ regions' = regions
             /\ ~hit => /\ raised' = "none"
                        /\ regions' = Append(regions,
                               [name |-> call'.name, base |-> call'.base,
                                size |-> call'.size, alias |-> call'.alias])]_vars

C5_Witness ==
    /\ call.op = "add_memory_region"
    /\ raised = "none"
    /\ Len(regions) = 2
    /\ regions[1].base = 196608 /\ regions[1].size = 2
    /\ regions[1].alias = 196608 + shadow_base
    /\ regions[2].alias = regions[2].base + shadow_base

\* C6: a layer never holds two distinct names with the same slot unless the
\* declaration was refused with SlotCollisionError.
C6_SlotCollisionRaises ==
    \A layer \in {base_layer, derived_layer} :
        (\E n, m \in DOMAIN layer : n # m /\ layer[n] = layer[m])
            => raised = "SlotCollisionError"

\* C7: once the composer is finalized it stays finalized, its maps, regions
\* and peripherals no longer change, and every declaration or registration
\* fails with AlreadyFinalizedError.
C7_FrozenAfterFinalize ==
    [][finalized =>
          /\ finalized'
          /\ maps' = maps
          /\ regions' = regions
          /\ submodules' = submodules
          /\ (calls' = calls + 1 /\ call'.op \in {"declare", "register", "add_memory_region"})
                 => raised' = "AlreadyFinalizedError"]_vars

C7_Witness ==
    /\ finalized
    /\ call.op = "declare"
    /\ raised = "AlreadyFinalizedError"
    /\ Len(regions) = 1

\* C8: a derivation whose domain or whose PLL reference does not exist yet
\* fails with ClockConfigError and adds no output; one whose domain and
\* reference exist succeeds; registering the reference needs no upstream;
\* and _CRG.__init__ raises nothing, derives only after all four domains and
\* the clk100 reference exist, and ends with the four outputs derived.
C8_NoForwardReference ==
    /\ (call.op = "create_clkout" /\ (call.name \notin domains \/ pll.clkin = "none")) =>
           /\ raised = "ClockConfigError"
           /\ \A i \in 1..Len(pll.clkouts) : pll.clkouts[i].cd # call.name
    /\ (call.op = "create_clkout" /\ call.name \in domains /\ pll.clkin # "none") =>
           /\ raised = "none"
           /\ Len(pll.clkouts) > 0
           /\ pll.clkouts[Len(pll.clkouts)].cd = call.name
    /\ call.op = "register_clkin" => raised = "none" /\ pll.clkin = call.name
    /\ pc # "harness" =>
           /\ raised = "none"
           /\ Len(pll.clkouts) > 0 =>
                  {"sys", "sys4x", "sys4x_dqs", "clk200"} \subseteq domains
                  /\ pll.clkin = "clk100"
    /\ pc = "crg_done" =>
           [i \in 1..Len(pll.clkouts) |-> pll.clkouts[i].cd]
               = <<"sys", "sys4x", "sys4x_dqs", "clk200">>

C8_Witness ==
    /\ pc = "harness"
    /\ call.op = "create_clkout"
    /\ call.name \notin domains
    /\ domains # {}
    /\ pll.clkin = "clk100"
    /\ raised = "ClockConfigError"

\* C9: from the moment the class BaseSoC exists, no step (class body or
\* build) changes its CSR, interrupt or memory map, and ethphy and ethmac are
\* in none of them.
C9_BaseMapsUnchanged ==
    [][("BaseSoC" \in DOMAIN csr_map) =>
          /\ BaseCsr' = BaseCsr
          /\ BaseIrq' = BaseIrq
          /\ BaseMem' = BaseMem
          /\ {"ethphy", "ethmac"} \cap DOMAIN BaseCsr' = {}
          /\ {"ethphy", "ethmac"} \cap DOMAIN BaseIrq' = {}
          /\ {"ethphy", "ethmac"} \cap DOMAIN BaseMem' = {}]_vars

C9_Witness ==
    /\ pc = "built"
    /\ builds = 2
    /\ cls = "BaseSoC"
    /\ "ethmac" \in DOMAIN EthCsr
    /\ BaseCsr["uart0"] = 18
    /\ "ethmac" \notin DOMAIN BaseCsr

\* C10: the peripherals registered so far are always an initial part of
\* crg, ddrphy, uart_phy0, uart0, uart_phy1, uart1, leds, switches, buttons,
\* ethphy, ethmac; nothing is registered before the four clock outputs are
\* derived; the SoC under construction holds the Ethernet pair only in the
\* Ethernet build; and a constructed SoC holds all of its peripherals.
C10_RegistrationOrder ==
    LET order == <<"crg", "ddrphy", "uart_phy0", "uart0", "uart_phy1", "uart1",
                   "leds", "switches", "buttons", "ethphy", "ethmac">>
    IN /\ Len(submodules) <= Len(order)
       /\ submodules = SubSeq(order, 1, Len(submodules))
       /\ Len(submodules) > 0 =>
              /\ pll.clkin = "clk100"
              /\ {pll.clkouts[i].cd : i \in 1..Len(pll.clkouts)}
                     = {"sys", "sys4x", "sys4x_dqs", "clk200"}
       /\ (cls = "BaseSoC" /\ pc # "soc_init") => Len(submodules) <= 9
       /\ pc \in {"constructed", "built"} =>
              Len(submodules) = IF cls = "EthernetSoC" THEN 11 ELSE 9

C10_Witness ==
    /\ pc = "built"
    /\ cls = "EthernetSoC"
    /\ Len(submodules) = 11
    /\ submodules[10] = "ethphy"
    /\ submodules[11] = "ethmac"

====
